---- MODULE Spec2Model ----
(***************************************************************************)
(* Model of the two samplers of the repository:                            *)
(*   - MCMC.metropolis   (src/Metropolis Algorithm/metropolis.py)          *)
(*   - Proposed.jump/HMC (src/Hamiltonian Monte Carlo/HMC.py)              *)
(*                                                                         *)
(* Reals are modelled by integers on which the code's float arithmetic is  *)
(* exact.  A uniform draw u in [0,1) of the Metropolis sampler is the      *)
(* numerator k of u = k / UDen.  A probability is a pair <<num, den>>.     *)
(* The two files are independent modules sharing no state; prog tells      *)
(* which of them the process runs.                                         *)
(***************************************************************************)
EXTENDS Integers, Sequences, FiniteSets, TLC

VARIABLES prog,        \* which module the process runs
          entropy,     \* the variates numpy's seeded bit stream yields, per seed
          calls,       \* number of calls made so far
          obj,         \* the MCMC object's fields
          mPc,         \* position of MCMC.metropolis
          theta_cur,   \* local theta_cur
          theta_freq,  \* local theta_freq
          rng,         \* local rng: the generator's seed and position
          result,      \* value returned by the last completed call
          iter,        \* what the last loop iteration did
          entry,       \* the arguments of the call, and the fields as they were at
                       \* its entry while its exception propagates
          prevResult,  \* value returned by the call before, if it completed
          heap,        \* the numpy arrays of an HMC call: shape and data of each
          frame,       \* HMC's local names (references into heap) and parameters
          hPc,         \* position of HMC
          hret,        \* the array HMC returned (a reference)
          hentry,      \* the values HMC's inputs and draws had
          hprev        \* inputs and result of the HMC call before, if it completed

mvars == <<obj, mPc, theta_cur, theta_freq, rng, result, iter, entry, prevResult>>
hvars == <<heap, frame, hPc, hret, hentry, hprev>>
vars == <<prog, entropy, calls, mvars, hvars>>

----------------------------------------------------------------------------
\* Bounds of the model
MaxChain == 3
MaxCalls == 2
UDen == 2

\* seed = None
NoSeed == 0
Seeds == {NoSeed, 1}

\* standard variates a jump distribution can draw; jumpdist is its scale
ZSet == {-1, 1}
USet == 0 .. (UDen - 1)

NoResult == <<-99>>

----------------------------------------------------------------------------
\* Pseudo-random source: np.random.default_rng(seed)

default_rng_unseeded(seed) == [seed |-> NoSeed, pos |-> 0]

default_rng(seed) == [seed |-> seed, pos |-> 0]

\* the values the next draw of generator g can return, when a fresh draw ranges over S
Draws(ent, g, S) ==
  IF g.seed # NoSeed /\ g.pos < Len(ent[g.seed])
    THEN {ent[g.seed][g.pos + 1]}
    ELSE S

\* the stream after generator g returned v
Drawn(ent, g, v) ==
  IF g.seed # NoSeed /\ g.pos >= Len(ent[g.seed])
    THEN [ent EXCEPT ![g.seed] = Append(@, v)]
    ELSE ent

Advance(g) == [g EXCEPT !.pos = @ + 1]

----------------------------------------------------------------------------
\* MCMC object

Callable(f) == f \in {"D1", "D2"}

\* the caller's density functions: D1(x) = x + 1 and D2(x) = x^2 on [0,2], 0 elsewhere
Density(f, x) ==
  IF x < 0 \/ x > 2 THEN 0
  ELSE IF f = "D1" THEN x + 1 ELSE x * x

Supported == {"chain", "theta_init", "jumpdist", "space", "burnin", "seed"}

SetField(o, kw, value) ==
  CASE kw = "chain"      -> [o EXCEPT !.chain = value]
    [] kw = "theta_init" -> [o EXCEPT !.theta_init = value]
    [] kw = "jumpdist"   -> [o EXCEPT !.jump = value]
    [] kw = "space"      -> [o EXCEPT !.space = value]
    [] kw = "burnin"     -> [o EXCEPT !.burnin = value]
    [] kw = "seed"       -> [o EXCEPT !.seed = value]

\* for args in arg: self.dfunc = args
ApplyArgs(o, arg) ==
  IF arg = <<>> THEN o ELSE [o EXCEPT !.dfunc = arg[Len(arg)]]

RECURSIVE ApplyKwargsAll(_, _)
ApplyKwargsAll(o, kwarg) ==
  IF kwarg = <<>> THEN [obj |-> o, raised |-> FALSE]
  ELSE LET kw == Head(kwarg)[1]
           value == Head(kwarg)[2]
           rest == ApplyKwargsAll(IF kw \in Supported THEN SetField(o, kw, value) ELSE o,
                                  Tail(kwarg))
       IN [obj |-> rest.obj, raised |-> rest.raised \/ kw \notin Supported]

\* for kw, value in kwarg.items(): ... else: raise
RECURSIVE ApplyKwargs(_, _)
ApplyKwargs(o, kwarg) ==
  IF kwarg = <<>> THEN [obj |-> o, raised |-> FALSE]
  ELSE LET kw == Head(kwarg)[1]
           value == Head(kwarg)[2]
       IN IF kw \in Supported
            THEN ApplyKwargs(SetField(o, kw, value), Tail(kwarg))
            ELSE [obj |-> o, raised |-> TRUE]

PmovingZeroCur(o, cur, pro) ==
  IF pro < o.space[1] \/ pro > o.space[2] THEN <<0, 1>>
  ELSE IF Density(o.dfunc, cur) = 0 THEN <<0, 1>>
  ELSE IF Density(o.dfunc, pro) >= Density(o.dfunc, cur) THEN <<1, 1>>
  ELSE <<Density(o.dfunc, pro), Density(o.dfunc, cur)>>

\* pmoving as a fraction <<num, den>>
Pmoving(o, cur, pro) ==
  IF pro < o.space[1] \/ pro > o.space[2] THEN <<0, 1>>
  ELSE IF Density(o.dfunc, cur) = 0 THEN <<1, 1>>
  ELSE IF Density(o.dfunc, pro) >= Density(o.dfunc, cur) THEN <<1, 1>>
  ELSE <<Density(o.dfunc, pro), Density(o.dfunc, cur)>>

\* number of times the iteration calls dfunc
Evals(o, cur, pro) ==
  IF pro < o.space[1] \/ pro > o.space[2] THEN 0
  ELSE IF Density(o.dfunc, cur) = 0 THEN 1
  ELSE 3

\* u <= pmoving, for u = k / UDen
Moves(k, pm) == k * pm[2] <= pm[1] * UDen

SliceWhole(s, b) == s

\* s[b:] for b >= 0
Slice(s, b) == IF b >= Len(s) THEN <<>> ELSE SubSeq(s, b + 1, Len(s))

----------------------------------------------------------------------------
\* inputs of the calls
Args == {<<>>, <<"D2">>, <<"notfn">>}

KwPairs == {<<"chain", 2>>, <<"theta_init", 3>>, <<"jumpdist", 2>>,
            <<"space", <<0, 3>>>>, <<"burnin", 2>>, <<"seed", 1>>}

Kwargs == {<<>>} \cup {<<p>> : p \in KwPairs} \cup {<<<<"bogus", 0>>>>}
          \cup {<<<<"chain", 2>>, <<"bogus", 0>>, <<"burnin", 2>>>>}

MCalls == {[arg |-> a, kwarg |-> <<>>] : a \in Args}
          \cup {[arg |-> <<>>, kwarg |-> k] : k \in Kwargs}
          \cup {[arg |-> <<"notfn">>, kwarg |-> <<<<"chain", 2>>>>]}

NoIter == [n |-> 0, cur |-> 0, pro |-> 0, u |-> 0, evals |-> 0,
           accepted |-> FALSE]
NoEntry == [obj |-> [dfunc |-> "D1", chain |-> 1, theta_init |-> 1, jump |-> 1,
                     space |-> <<0, 2>>, burnin |-> 0, seed |-> NoSeed],
            arg |-> <<>>, kwarg |-> <<>>]

\* d = MCMC(density, chain = .., theta_init = 1, jumpdist = .., space = [0,2])
InitM ==
  /\ \E c \in 1 .. MaxChain :
       obj = [dfunc |-> "D1", chain |-> c, theta_init |-> 1, jump |-> 1,
              space |-> <<0, 2>>, burnin |-> 0, seed |-> NoSeed]
  /\ mPc = "idle"
  /\ theta_cur = 0
  /\ theta_freq = <<>>
  /\ rng = default_rng(NoSeed)
  /\ result = NoResult
  /\ iter = NoIter
  /\ entry = NoEntry
  /\ prevResult = NoResult

----------------------------------------------------------------------------
\* Hamiltonian Monte Carlo

\* bounds of the HMC inputs
MaxL == 2
MaxUK == 2

\* standard normal variates, and the codes k of the acceptance draw u = exp(-k/2)
ZNormal == {-1, 2}
HU == 1 .. MaxUK
RawH == ZNormal \X HU

\* the caller's position arrays
QInputs == {<<1>>, <<1, 2>>}
EpsSet == {1}
Potentials == {"quad", "lin"}

NoArray == [shape |-> <<>>, data |-> <<>>]
Array1(v) == [shape |-> <<Len(v)>>, data |-> v]

RECURSIVE Sum(_)
Sum(s) == IF s = <<>> THEN 0 ELSE Head(s) + Sum(Tail(s))

\* twice the caller's potential: U(q) = sum(q**2) ("quad"), U(q) = sum(2*q) ("lin")
U2(U, q) ==
  IF U = "quad" THEN 2 * Sum([i \in 1 .. Len(q) |-> q[i] * q[i]])
  ELSE 4 * Sum(q)

\* autolik.grad(U)(q)
Grad(U, q) ==
  IF U = "quad" THEN [i \in 1 .. Len(q) |-> 2 * q[i]]
  ELSE [i \in 1 .. Len(q) |-> 2]

\* twice the kinetic energy sum(p**2) / 2
K2(p) == Sum([i \in 1 .. Len(p) |-> p[i] * p[i]])

\* numpy broadcasting of two shapes of rank 1 or 2; <<>> when they do not broadcast
Pad(s) == IF Len(s) = 1 THEN <<1, s[1]>> ELSE s
Broadcast(s, t) ==
  LET a == Pad(s)
      b == Pad(t)
      ok == \A i \in 1 .. 2 : a[i] = b[i] \/ a[i] = 1 \/ b[i] = 1
      full == [i \in 1 .. 2 |-> IF a[i] = 1 THEN b[i] ELSE a[i]]
  IN IF ~ok THEN <<>>
     ELSE IF Len(s) = 1 /\ Len(t) = 1 THEN <<full[2]>> ELSE full

\* an in-place operator (+=, -=) needs the broadcast shape to be the target's shape
InPlaceOK(target, other) == Broadcast(target.shape, other.shape) = target.shape

\* Proposed(dim, seed).jump(), for the standard variate z the generator yields:
\* rng.normal(0,1,1) has shape (1,); rng.multivariate_normal(zeros, ones((dim,dim)), 1)
\* has shape (1, dim) and, its covariance being all ones, equal components
jump(dim, z) ==
  IF dim = 1 THEN [shape |-> <<1>>, data |-> <<z>>]
  ELSE [shape |-> <<1, dim>>, data |-> [i \in 1 .. dim |-> z]]

\* a += c * b elementwise (shapes checked by the caller)
AddScaled(a, c, b) == [a EXCEPT !.data = [i \in 1 .. Len(a.data) |-> a.data[i] + c * b[i]]]

\* p - eps * g / div  (the gradients of the potentials are even, so the halves are exact)
MomentumStep(p, eps, g, div) ==
  [p EXCEPT !.data = [i \in 1 .. Len(p.data) |-> p.data[i] - ((eps * g[i]) \div div)]]

Neg(p) == [p EXCEPT !.data = [i \in 1 .. Len(p.data) |-> 0 - p.data[i]]]

\* u < exp(d2 / 2) for u = exp(-k / 2)
UnderExp(k, d2) == 0 - k < d2

NoFrame == [q |-> "none", current_q |-> "none", p |-> "none", current_p |-> "none",
            U |-> "quad", eps |-> 1, L |-> 1, seed |-> NoSeed, left |-> 0]
NoHEntry == [q |-> <<>>, p |-> <<>>, u |-> 1, accepted |-> FALSE, n |-> 0]
NoHPrev == [valid |-> FALSE, U |-> "quad", eps |-> 1, L |-> 1, seed |-> NoSeed,
            q |-> <<>>, result |-> <<>>]

IdleM ==
  /\ obj = NoEntry.obj
  /\ mPc = "idle"
  /\ theta_cur = 0
  /\ theta_freq = <<>>
  /\ rng = default_rng(NoSeed)
  /\ result = NoResult
  /\ iter = NoIter
  /\ entry = NoEntry
  /\ prevResult = NoResult

IdleH ==
  /\ heap = [o \in {"q", "p", "negp"} |-> NoArray]
  /\ frame = NoFrame
  /\ hPc = "idle"
  /\ hret = "none"
  /\ hentry = NoHEntry
  /\ hprev = NoHPrev

\* current_q = np.array(v) in the caller
InitH ==
  /\ \E v \in QInputs : heap = [o \in {"q", "p", "negp"} |-> IF o = "q" THEN Array1(v) ELSE NoArray]
  /\ frame = NoFrame
  /\ hPc = "idle"
  /\ hret = "none"
  /\ hentry = NoHEntry
  /\ hprev = NoHPrev

\* the completed call, as the next one sees it
LastHCall ==
  IF hPc = "done"
    THEN [valid |-> TRUE, U |-> frame.U, eps |-> frame.eps, L |-> frame.L,
          seed |-> frame.seed, q |-> hentry.q, result |-> heap[hret].data]
    ELSE IF hPc = "idle" THEN hprev ELSE NoHPrev

\* the caller binds current_q to a new array
CallerArray(v) ==
  /\ prog = "HMC"
  /\ hPc \in {"done", "raised"}
  /\ heap' = [o \in {"q", "p", "negp"} |-> IF o = "q" THEN Array1(v) ELSE NoArray]
  /\ hPc' = "idle"
  /\ hret' = "none"
  /\ frame' = NoFrame
  /\ hprev' = LastHCall
  /\ UNCHANGED <<prog, entropy, calls, mvars, hentry>>

\* lines 23-28: bind q, draw the momentum, first half step of the momentum
HMCEnter(U, eps, L, seed) ==
  /\ prog = "HMC"
  /\ hPc \in {"idle", "done", "raised"}
  /\ calls < MaxCalls
  /\ calls' = calls + 1
  /\ \E raw \in Draws(entropy, default_rng(seed), RawH) :
       LET current_q == "q"
           q == current_q
           p0 == jump(Len(heap[q].data), raw[1])
           p == "p"
           current_p == p
       IN /\ entropy' = Drawn(entropy, default_rng(seed), raw)
          /\ heap' = [heap EXCEPT ![p] = MomentumStep(p0, eps, Grad(U, heap[q].data), 2),
                                  !["negp"] = NoArray]
          /\ frame' = [q |-> q, current_q |-> current_q, p |-> p, current_p |-> current_p,
                       U |-> U, eps |-> eps, L |-> L, seed |-> seed, left |-> L - 1]
          /\ hentry' = [q |-> heap[q].data, p |-> p0.data, u |-> 1, accepted |-> FALSE,
                        n |-> calls + 1]
  /\ hPc' = IF L - 1 > 0 THEN "loop" ELSE "end"
  /\ hret' = "none"
  /\ hprev' = LastHCall
  /\ UNCHANGED <<prog, mvars>>

\* lines 32-36: one pass of the leapfrog loop
HMCLeap ==
  /\ hPc = "loop"
  /\ IF ~InPlaceOK(heap[frame.q], heap[frame.p])
       THEN /\ hPc' = "raised"
            /\ UNCHANGED <<heap, frame>>
       ELSE LET q1 == AddScaled(heap[frame.q], frame.eps, heap[frame.p].data)
                p1 == MomentumStep(heap[frame.p], frame.eps, Grad(frame.U, q1.data), 1)
            IN /\ heap' = [heap EXCEPT ![frame.q] = q1, ![frame.p] = p1]
               /\ frame' = [frame EXCEPT !.left = @ - 1]
               /\ hPc' = IF frame.left - 1 > 0 THEN "loop" ELSE "end"
  /\ UNCHANGED <<prog, entropy, calls, mvars, hret, hentry, hprev>>

\* lines 39-56: last position step, last half step, negation, energies, accept or reject
HMCEnd ==
  /\ hPc = "end"
  /\ IF ~InPlaceOK(heap[frame.q], heap[frame.p])
       THEN /\ hPc' = "raised"
            /\ UNCHANGED <<heap, frame, entropy, hret, hentry>>
       ELSE \E raw \in Draws(entropy, default_rng(frame.seed), RawH) :
            LET q1 == AddScaled(heap[frame.q], frame.eps, heap[frame.p].data)
                p1 == MomentumStep(heap[frame.p], frame.eps, Grad(frame.U, q1.data), 2)
                h1 == [heap EXCEPT ![frame.q] = q1, ![frame.p] = p1, !["negp"] = Neg(p1)]
                f1 == [frame EXCEPT !.p = "negp"]
                current_U == U2(f1.U, h1[f1.current_q].data)
                current_K == K2(h1[f1.current_p].data)
                proposed_U == U2(f1.U, h1[f1.q].data)
                proposed_K == K2(h1[f1.p].data)
                acc == UnderExp(raw[2], current_U - proposed_U + current_K - proposed_K)
            IN /\ heap' = h1
               /\ frame' = f1
               /\ entropy' = Drawn(entropy, default_rng(frame.seed), raw)
               /\ hret' = IF acc THEN f1.q ELSE f1.current_q
               /\ hentry' = [hentry EXCEPT !.u = raw[2], !.accepted = acc]
               /\ hPc' = "done"
  /\ UNCHANGED <<prog, calls, mvars, hprev>>

Init ==
  /\ prog \in {"metropolis", "HMC"}
  /\ entropy = [s \in Seeds \ {NoSeed} |-> <<>>]
  /\ calls = 0
  /\ IF prog = "metropolis" THEN InitM /\ IdleH ELSE IdleM /\ InitH

\* lines 84-112: update the attributes, check dfunc, start the chain
MetropolisCall(c) ==
  /\ prog = "metropolis"
  /\ mPc \in {"idle", "done", "raised"}
  /\ calls < MaxCalls
  /\ calls' = calls + 1
  /\ LET r == ApplyKwargs(ApplyArgs(obj, c.arg), c.kwarg)
         ok == ~r.raised /\ Callable(r.obj.dfunc)
     IN /\ obj' = r.obj
        /\ mPc' = IF ok THEN "loop" ELSE "raised"
        /\ theta_cur' = IF ok THEN r.obj.theta_init ELSE 0
        /\ theta_freq' = IF ok THEN <<r.obj.theta_init>> ELSE <<>>
        /\ rng' = IF ok THEN default_rng(r.obj.seed) ELSE default_rng(NoSeed)
        /\ entry' = [obj |-> IF ok THEN r.obj ELSE obj, arg |-> c.arg, kwarg |-> c.kwarg]
  /\ prevResult' = IF mPc = "done" THEN result ELSE NoResult
  /\ result' = NoResult
  /\ iter' = NoIter
  /\ UNCHANGED <<prog, entropy, hvars>>

\* lines 115-135: one pass of the while loop, and the return that follows the last
MetropolisIter ==
  /\ mPc = "loop"
  /\ \E z \in Draws(entropy, rng, ZSet) :
       LET e1 == Drawn(entropy, rng, z)
           g1 == Advance(rng)
       IN \E k \in Draws(e1, g1, USet) :
            LET Delta_theta == obj.jump * z
                theta_pro == theta_cur + Delta_theta
                pmoving == Pmoving(obj, theta_cur, theta_pro)
                acc == Moves(k, pmoving)
                nxt == IF acc THEN theta_pro ELSE theta_cur
            IN /\ entropy' = Drawn(e1, g1, k)
               /\ rng' = Advance(g1)
               /\ theta_freq' = Append(theta_freq, nxt)
               /\ theta_cur' = nxt
               /\ iter' = [n |-> iter.n + 1, cur |-> theta_cur, pro |-> theta_pro,
                           u |-> k, evals |-> Evals(obj, theta_cur, theta_pro),
                           accepted |-> acc]
               /\ IF Len(theta_freq) + 1 >= obj.chain
                    THEN /\ mPc' = "done"
                         /\ result' = Slice(Append(theta_freq, nxt), obj.burnin)
                    ELSE /\ mPc' = "loop"
                         /\ UNCHANGED result
  /\ UNCHANGED <<prog, calls, obj, entry, prevResult, hvars>>

Next ==
  \/ \E c \in MCalls : MetropolisCall(c)
  \/ MetropolisIter
  \/ \E v \in QInputs : CallerArray(v)
  \/ \E U \in Potentials, eps \in EpsSet, L \in 1 .. MaxL, seed \in Seeds : HMCEnter(U, eps, L, seed)
  \/ HMCLeap
  \/ HMCEnd

Spec == Init /\ [][Next]_vars

----------------------------------------------------------------------------
\* Properties

Last(s) == s[Len(s)]

HasUnsupported(kwarg) == \E i \in 1 .. Len(kwarg) : kwarg[i][1] \notin Supported

\* C1: a completed call with chain N > burnin B >= 0 (N = 1 included) returns
\* exactly N - B elements.
C1_Length ==
  (mPc = "done" /\ obj.chain > obj.burnin /\ obj.burnin >= 0)
    => Len(result) = obj.chain - obj.burnin

\* C2: every element of the returned sequence lies in space = [lo, hi].
C2_Domain ==
  mPc = "done"
    => \A i \in 1 .. Len(result) : obj.space[1] <= result[i] /\ result[i] <= obj.space[2]

\* twice (H_current - H_proposed), from the position at call entry, the momentum as
\* first drawn, and the position and negated momentum at the end of the trajectory
TrueDelta2 ==
  (U2(frame.U, hentry.q) + K2(hentry.p))
    - (U2(frame.U, heap[frame.q].data) + K2(heap["negp"].data))

\* C3: HMC returns the end-of-trajectory position exactly when
\* u < exp(H_current - H_proposed), the energies being those of the entry position
\* with the momentum as drawn and of the end position with the negated momentum;
\* otherwise it returns the position with its values at call entry.
C3_AcceptTest ==
  hPc = "done"
    => /\ hentry.accepted <=> UnderExp(hentry.u, TrueDelta2)
       /\ ~hentry.accepted => heap[hret].data = hentry.q

\* C4: with a seed, a second call of metropolis on the same object with no arguments
\* returns the sequence the call before returned, and a second call of HMC with the
\* same U, eps, L, seed and an equal current_q returns an equal position.
C4_Determinism ==
  /\ (mPc = "done" /\ entry.arg = <<>> /\ entry.kwarg = <<>> /\ prevResult # NoResult
        /\ obj.seed # NoSeed)
       => result = prevResult
  /\ (hPc = "done" /\ hprev.valid /\ frame.seed # NoSeed
        /\ hprev.U = frame.U /\ hprev.eps = frame.eps /\ hprev.L = frame.L
        /\ hprev.seed = frame.seed /\ hprev.q = hentry.q)
       => heap[hret].data = hprev.result

C4_Witness ==
  /\ mPc = "done" /\ entry.arg = <<>> /\ entry.kwarg = <<>> /\ prevResult # NoResult
  /\ obj.seed # NoSeed /\ Len(result) = 3 /\ result = prevResult
  /\ result[2] # result[1] /\ result[3] = result[2]

\* a second HMC call with the inputs of the first, on a position the first one moved
C4_WitnessHMC ==
  /\ hPc = "done" /\ hprev.valid /\ frame.seed # NoSeed
  /\ hprev.U = frame.U /\ hprev.eps = frame.eps /\ hprev.L = frame.L
  /\ hprev.seed = frame.seed /\ hprev.q = hentry.q
  /\ hprev.result # hprev.q

\* C5 as stated: a call whose configuration has burnin >= chain raises.
C5_Rejected ==
  (mPc # "idle" /\ obj.burnin >= obj.chain) => mPc = "raised"

\* C5 as amended: burnin >= chain is not rejected. A call raises only for an
\* unsupported keyword or a non-callable dfunc, before any iteration; a call with
\* burnin >= chain runs its iterations and returns theta_freq without its first
\* burnin elements (nothing when burnin is at least its length).
C5_NotRejected ==
  /\ mPc = "raised"
       => /\ iter.n = 0 /\ theta_freq = <<>>
          /\ HasUnsupported(entry.kwarg) \/ obj.dfunc = "notfn"
  /\ mPc \in {"loop", "done"}
       => ~HasUnsupported(entry.kwarg) /\ obj.dfunc # "notfn"
  /\ (mPc = "done" /\ obj.burnin >= obj.chain)
       => /\ iter.n >= 1
          /\ Len(result) = IF obj.burnin >= Len(theta_freq) THEN 0
                            ELSE Len(theta_freq) - obj.burnin
          /\ \A i \in 1 .. Len(result) : result[i] = theta_freq[i + obj.burnin]

C5_Witness ==
  mPc = "done" /\ obj.burnin >= obj.chain /\ Len(theta_freq) = 2 /\ result = <<>>

\* C6: an iteration whose proposal lies outside space rejects it whatever u is:
\* theta_cur is appended unchanged, and dfunc is not evaluated.
C6_DomainReject ==
  (iter.n >= 1 /\ (iter.pro < obj.space[1] \/ iter.pro > obj.space[2]))
    => /\ ~iter.accepted
       /\ theta_cur = iter.cur
       /\ Last(theta_freq) = iter.cur
       /\ iter.evals = 0

\* C7: an iteration whose proposal lies inside space and whose acceptance probability
\* is 1 (dfunc(theta_cur) = 0, or dfunc(theta_pro) / dfunc(theta_cur) >= 1) accepts the
\* proposal whatever u is: theta_pro is appended and becomes theta_cur.
C7_AlwaysAccept ==
  (/\ iter.n >= 1
   /\ obj.space[1] <= iter.pro /\ iter.pro <= obj.space[2]
   /\ \/ Density(obj.dfunc, iter.cur) = 0
      \/ Density(obj.dfunc, iter.pro) >= Density(obj.dfunc, iter.cur))
    => /\ iter.accepted
       /\ theta_cur = iter.pro
       /\ Last(theta_freq) = iter.pro

C7_Witness ==
  /\ iter.n >= 1
  /\ obj.space[1] <= iter.pro /\ iter.pro <= obj.space[2]
  /\ Density(obj.dfunc, iter.cur) = 0
  /\ iter.u = UDen - 1
  /\ theta_cur = iter.pro /\ iter.pro # iter.cur

\* C8: during a transition the momentum has the shape of the position, for every
\* dimension, so every update is well-defined and the transition completes.
C8_SameShape ==
  /\ hPc \in {"loop", "end", "done"} => heap[frame.p].shape = heap[frame.q].shape
  /\ hPc # "raised"

\* C9: when HMC has returned, the caller's current_q holds the values it held at
\* call entry.
C9_ArgUnmodified ==
  hPc = "done" => heap["q"].data = hentry.q

\* index of the first unsupported keyword, Len + 1 if there is none
FirstBad(kwarg) ==
  IF HasUnsupported(kwarg)
    THEN CHOOSE i \in 1 .. Len(kwarg) :
           /\ kwarg[i][1] \notin Supported
           /\ \A j \in 1 .. (i - 1) : kwarg[j][1] \in Supported
    ELSE Len(kwarg) + 1

\* the value field kw must have after a failed call
Expected(kw, old) ==
  LET n == FirstBad(entry.kwarg) - 1
      hits == {i \in 1 .. n : entry.kwarg[i][1] = kw}
  IN IF hits = {} THEN old
     ELSE entry.kwarg[CHOOSE i \in hits : \A j \in hits : j <= i][2]

\* C10 as stated: a call that fails with a configuration error leaves every field
\* as it was before the call.
C10_Atomic ==
  mPc = "raised" => obj = entry.obj

\* C10 as amended: a call that fails with a configuration error runs no iteration and
\* leaves a field as it was unless an argument processed before the error set it:
\* a positional argument has replaced dfunc, and every supported keyword before the
\* first unsupported one (all of them when dfunc is the fault) has replaced its field.
C10_Partial ==
  mPc = "raised"
    => /\ iter.n = 0 /\ theta_freq = <<>>
       /\ obj.dfunc = IF entry.arg = <<>> THEN entry.obj.dfunc ELSE Last(entry.arg)
       /\ obj.chain = Expected("chain", entry.obj.chain)
       /\ obj.theta_init = Expected("theta_init", entry.obj.theta_init)
       /\ obj.jump = Expected("jumpdist", entry.obj.jump)
       /\ obj.space = Expected("space", entry.obj.space)
       /\ obj.burnin = Expected("burnin", entry.obj.burnin)
       /\ obj.seed = Expected("seed", entry.obj.seed)

C10_Witness ==
  /\ mPc = "raised" /\ HasUnsupported(entry.kwarg)
  /\ obj.chain # entry.obj.chain /\ entry.obj.burnin # 2 /\ obj.burnin = entry.obj.burnin

====
